---------------------------- MODULE Spec2Model ----------------------------
(***************************************************************************)
(* The grid-details view of eza: the search for the column count that     *)
(* fits the console (src/output/grid_details.rs) and the TextCell it      *)
(* measures with (src/output/cell.rs).                                     *)
(*                                                                         *)
(* Spec      one call of Render::render: find_fitting_grid run step by    *)
(*           step (entry, one step per trial of the loop, the fall out of  *)
(*           the loop), then the caller's choice of renderer.              *)
(* SpecPair  two such calls on the same files and console that differ in  *)
(*           the row threshold only, the second run after the first.       *)
(* SpecGrid  one call of Render::make_grid on drawn files and column       *)
(*           count.                                                        *)
(* SpecCell  a TextCell built by paint or blank and changed by add_spaces, *)
(*           push and append.                                              *)
(* SpecGit   one call of Render::render for each state of the Git cache.   *)
(* SpecScan  one call of Render::render without a Git cache.               *)
(* SpecType  one call of FileType::get_file_type (src/info/filetype.rs).   *)
(***************************************************************************)
EXTENDS Integers, Sequences, FiniteSets, TLC

VARIABLES
    self,               \* run -> the Render struct (its fields)
    pc,                 \* run -> position in render / find_fitting_grid
    rows,               \* run -> find_fitting_grid's local `rows`
    column_count,       \* run -> the loop variable of `for column_count in 2..100`
    last_working_grid,  \* run -> find_fitting_grid's local of that name
    result,             \* run -> what find_fitting_grid returned
    trials,             \* run -> the column counts the loop has evaluated, in order
    output,             \* run -> which renderer render() wrote with
    mg,                 \* SpecGrid: the make_grid call, its arguments and what it made
    cell,               \* SpecCell: the TextCell
    op,                 \* SpecCell: the last operation on the cell and its arguments
    ft                  \* SpecType: the get_file_type call, its file and its result

runVars == <<self, pc, rows, column_count, last_working_grid, result, trials, output>>
vars == <<self, pc, rows, column_count, last_working_grid, result, trials, output,
          mg, cell, op, ft>>

-----------------------------------------------------------------------------
(* Bounds of the model and constants of the program.                       *)

MaxN == 4
MaxW == 27
MaxThresh == 2
WideConsole == 2000

\* grid::Filling::Spaces(4)
Filling == 4
\* for column_count in 2..100
ColumnLimit == 100

-----------------------------------------------------------------------------
(* Small helpers.                                                          *)

Max(S) == CHOOSE x \in S : \A y \in S : y <= x

RECURSIVE SumSeq(_)
SumSeq(s) == IF s = <<>> THEN 0 ELSE Head(s) + SumSeq(Tail(s))

RECURSIVE Flatten(_)
Flatten(ss) == IF ss = <<>> THEN <<>> ELSE Head(ss) \o Flatten(Tail(ss))

divide_rounding_up(a, b) ==
    LET result0 == a \div b
    IN  IF a % b # 0 THEN result0 + 1 ELSE result0

-----------------------------------------------------------------------------
(* The collaborators: the Git cache, the details table, the grid packer.   *)

\* Paths: the directory has path 0, file i has path i.
DirPath == 0

has_anything_for(cache, path) == path \in cache

\* Table::header_row: the widths of the column titles, and of the "Name"
\* that render_header puts after them.
HeaderRow == [attr |-> 2, git |-> 3, name |-> 4]

\* Table::new: the columns (the Git column only with a Git cache), all of
\* width 0, and no row yet.  Row 0 is the header row, row i the row of file i.
NewTable(git) ==
    [has_git |-> git = "Some", widths |-> [attr |-> 0, git |-> 0], rows |-> <<>>]

\* Table::row_for_file: the cells of one file, a Git cell (two status
\* characters) when the table has the Git column.
row_for_file(table, file) ==
    [attr |-> file.attr, git |-> IF table.has_git THEN 2 ELSE 0,
     has_git |-> table.has_git]

\* Table::add_widths: the running maximum width of each column the table and
\* the row both have.
add_widths(table, row) ==
    [table EXCEPT
        !.widths.attr = IF row.attr > @ THEN row.attr ELSE @,
        !.widths.git = IF table.has_git /\ row.has_git /\ row.git > @
                       THEN row.git ELSE @]

\* Table::render and the name appended by iterate_with_table: every column
\* padded to the table's width and followed by one space, then the name.
RenderedWidth(table, x, the_rows, file_names) ==
    LET git_shown == table.has_git /\ (x = 0 \/ the_rows[x].has_git)
    IN  (table.widths.attr + 1)
        + (IF git_shown THEN table.widths.git + 1 ELSE 0)
        + (IF x = 0 THEN HeaderRow.name ELSE file_names[x])

\* DetailsRender::iterate_with_table: one cell per row of the table.
iterate_with_table(table, the_rows, file_names) ==
    [k \in 1..Len(table.rows) |->
        [contents |-> table.rows[k],
         width |-> RenderedWidth(table, table.rows[k], the_rows, file_names)]]

\* term_grid, Grid::column_widths: the column a cell goes to (0-based).
GridColumnOf(direction, index, num_lines, num_columns) ==
    IF direction = "LeftToRight" THEN index % num_columns
    ELSE index \div num_lines

\* term_grid, Grid::column_widths: each column's width is the largest width
\* among the cells that go to it, 0 when none does.
column_widths(grid, num_lines, num_columns) ==
    LET len == Len(grid.cells)
        index == [p \in 1..len |->
                    GridColumnOf(grid.direction, p - 1, num_lines, num_columns)]
    IN  [k \in 1..num_columns |->
            Max({0} \cup {grid.cells[p].width : p \in {q \in 1..len : index[q] = k - 1}})]

\* term_grid, Grid::fit_into_columns (columns_dimensions): the dimensions.
fit_into_columns(grid, num_columns) ==
    LET num_lines == divide_rounding_up(Len(grid.cells), num_columns)
    IN  [num_lines |-> num_lines,
         widths |-> column_widths(grid, num_lines, num_columns)]

\* term_grid: Display::width, Dimensions::total_width.
DisplayWidth(d) ==
    IF Len(d.widths) = 0 THEN 0
    ELSE SumSeq(d.widths) + Filling * (Len(d.widths) - 1)

\* term_grid: Display::row_count.
row_count(d) == d.num_lines

-----------------------------------------------------------------------------
(* Render::make_table and Render::make_grid.                               *)

\* Mutant: the cache is asked about the files also when there is a directory.
make_table_git_dir_ignored(s) ==
    IF s.git = "Some"
    THEN IF ~(\E i \in 1..Len(s.files) : has_anything_for(s.cache, i))
         THEN "None" ELSE s.git
    ELSE s.git

\* make_table's match on (self.git, self.dir): the value of self.git after it.
make_table_git(s) ==
    IF s.git = "Some" /\ s.dir = "Some"
    THEN IF ~has_anything_for(s.cache, DirPath) THEN "None" ELSE s.git
    ELSE IF s.git = "Some" /\ s.dir = "None"
    THEN IF ~(\E i \in 1..Len(s.files) : has_anything_for(s.cache, i))
         THEN "None" ELSE s.git
    ELSE s.git

\* make_table: self after the call, and the new table with its header row.
make_table(s) ==
    LET git == make_table_git(s)
        table == NewTable(git)
    IN  [self |-> [s EXCEPT !.git = git],
         table |-> IF s.header
                   THEN [add_widths(table, [attr |-> HeaderRow.attr,
                                            git |-> HeaderRow.git,
                                            has_git |-> table.has_git])
                            EXCEPT !.rows = <<0>>]
                   ELSE table]

\* make_grid's first loop, rounds lo..hi: each calls make_table and pushes
\* the table onto `tables`.  `acc` is [self, tables] before round lo.  (The
\* rounds are split in two halves, and the first half is looked at before
\* the second is entered, so that the evaluation stays shallow.)
RECURSIVE MakeTables(_, _, _)
MakeTables(acc, lo, hi) ==
    IF lo > hi THEN acc
    ELSE IF lo = hi
    THEN LET made == make_table(acc.self)
         IN  [self |-> made.self, tables |-> Append(acc.tables, made.table)]
    ELSE LET mid == (lo + hi) \div 2
             left == MakeTables(acc, lo, mid)
         IN  IF Len(left.tables) = Len(acc.tables) + (mid - lo + 1)
             THEN MakeTables(left, mid + 1, hi) ELSE left

\* The name cells of the files (their widths), in file order.
FileNames(s) == [i \in 1..Len(s.files) |-> s.files[i].name]

\* Mutant: the rows per table are counted with the header rows (`height`).
TableIndex_with_height(s, i, n, column_count0) ==
    IF s.across THEN i % column_count0
    ELSE i \div divide_rounding_up(n + column_count0, column_count0)

\* Mutant: the files are counted from 1 when they are dealt across.
TableIndex_from_one(s, i, n, column_count0) ==
    IF s.across THEN (i + 1) % column_count0
    ELSE i \div divide_rounding_up(n, column_count0)

\* Mutant: down, the files are dealt by `height`, which counts the headers.
TableIndex_by_height(s, i, n, column_count0) ==
    IF s.across THEN i % column_count0
    ELSE i \div divide_rounding_up(IF s.header THEN n + column_count0 ELSE n,
                                   column_count0)

\* The table a file goes to: i is 0-based, as in the code.
TableIndex(s, i, n, column_count0) ==
    IF s.across THEN i % column_count0
    ELSE i \div divide_rounding_up(n, column_count0)

\* make_grid's second loop, files lo..hi (1-based) in order: the file's row
\* is added to tables[index].  An index past the tables is the code's panic;
\* the tables are then left as they are.  (Split in halves as MakeTables.)
RECURSIVE AddFiles(_, _, _, _, _, _)
AddFiles(s, tables, the_rows, column_count0, lo, hi) ==
    IF lo > hi THEN tables
    ELSE IF lo = hi
    THEN LET index == TableIndex(s, lo - 1, Len(the_rows), column_count0)
         IN  IF index >= column_count0 THEN tables
             ELSE [tables EXCEPT ![index + 1] =
                      [add_widths(@, the_rows[lo]) EXCEPT !.rows = Append(@, lo)]]
    ELSE LET mid == (lo + hi) \div 2
             left == AddFiles(s, tables, the_rows, column_count0, lo, mid)
         IN  IF Len(left) = column_count0
             THEN AddFiles(s, left, the_rows, column_count0, mid + 1, hi) ELSE left

\* Mutant: across, the rows stop at the first row that a table does not have.
GridCells_until_short_row(s, columns, height) ==
    IF s.across
    THEN Flatten([row \in 1..height |->
            IF \A j \in 1..Len(columns) : row - 1 < Len(columns[j])
            THEN Flatten([j \in 1..Len(columns) |-> <<columns[j][row]>>])
            ELSE <<>>])
    ELSE Flatten(columns)

\* Mutant: across, the rows are counted without the header row
\* (original_height in place of height).
GridCells_original_height(s, columns, height) ==
    IF s.across
    THEN Flatten([row \in 1..(IF s.header THEN height - 1 ELSE height) |->
            Flatten([j \in 1..Len(columns) |->
                IF row - 1 < Len(columns[j]) THEN <<columns[j][row]>> ELSE <<>>])])
    ELSE Flatten(columns)

\* make_grid's last loops: the cells in the order they are added to the grid.
GridCells(s, columns, height) ==
    IF s.across
    THEN Flatten([row \in 1..height |->
            Flatten([j \in 1..Len(columns) |->
                IF row - 1 < Len(columns[j]) THEN <<columns[j][row]>> ELSE <<>>])])
    ELSE Flatten(columns)

\* make_grid: the tables it fills, the grid it returns, and self after its
\* make_table calls.  `panic` is the out-of-range tables[index].
make_grid(s, column_count0, file_names, the_rows) ==
    LET made == MakeTables([self |-> s, tables |-> <<>>], 1, column_count0)
        n == Len(the_rows)
        num_cells == IF s.header THEN n + column_count0 ELSE n
        height == divide_rounding_up(num_cells, column_count0)
        tables == AddFiles(s, made.tables, the_rows, column_count0, 1, n)
        columns == [j \in 1..column_count0 |->
                        iterate_with_table(tables[j], the_rows, file_names)]
    IN  [self |-> made.self,
         panic |-> \E i \in 1..n :
                      TableIndex(s, i - 1, n, column_count0) >= column_count0,
         tables |-> tables,
         grid |-> [direction |-> IF s.across THEN "LeftToRight" ELSE "TopToBottom",
                   cells |-> GridCells(s, columns, height)]]

-----------------------------------------------------------------------------
(* Render::find_fitting_grid and Render::render.                           *)

EmptyGrid == [direction |-> "LeftToRight", cells |-> <<>>]
None == [some |-> FALSE, grid |-> EmptyGrid, width |-> 0]
Some(grid, width) == [some |-> TRUE, grid |-> grid, width |-> width]

Runs == DOMAIN pc

\* Mutant: the early return is taken for no file rather than for one.
single_file_when_empty(file_names) == Len(file_names) = 0

\* `file_names.len() == 1`: the single file that is returned at once.
single_file(file_names) == Len(file_names) = 1

\* Mutant: the range includes its upper end (2..=100).
in_range_inclusive(c) == c >= 2 /\ c <= ColumnLimit

\* The range of `for column_count in 2..100`.
in_range(c) == c >= 2 /\ c < ColumnLimit

\* Mutant: the gaps between the columns are left out of the width.
the_grid_fits_without_gaps(s, grid, column_count0) ==
    SumSeq(fit_into_columns(grid, column_count0).widths) <= s.console_width

\* `the_grid_fits`: the grid packed into column_count0 columns is no wider
\* than the console.
the_grid_fits(s, grid, column_count0) ==
    DisplayWidth(fit_into_columns(grid, column_count0)) <= s.console_width

\* Mutant: the search goes on past one column per file.
search_ends_on_failure_only(fits, column_count0, file_names) == ~fits

\* Mutant: the search stops only when there is a column per file.
search_ends_at_file_count(fits, column_count0, file_names) ==
    column_count0 = Len(file_names)

\* `!the_grid_fits || column_count == file_names.len()`: the search stops.
search_ends(fits, column_count0, file_names) ==
    ~fits \/ column_count0 = Len(file_names)

\* Mutant: the failing column count is kept.
last_column_count_not_stepped_back(fits, column_count0) == column_count0

\* `last_column_count`
last_column_count(fits, column_count0) ==
    IF fits THEN column_count0 ELSE column_count0 - 1

\* Mutant: a grid one row short of the threshold is let through.
too_few_rows_off_by_one(s, grid, columns) ==
    /\ s.row_threshold.kind = "MinimumRows"
    /\ row_count(fit_into_columns(grid, columns)) + 1 < s.row_threshold.thresh

\* Mutant: AlwaysGrid is read as a threshold of two rows.
too_few_rows_under_always_grid(s, grid, columns) ==
    row_count(fit_into_columns(grid, columns))
        < (IF s.row_threshold.kind = "MinimumRows" THEN s.row_threshold.thresh ELSE 2)

\* The row-threshold test made before a grid is returned.
too_few_rows(s, grid, columns) ==
    /\ s.row_threshold.kind = "MinimumRows"
    /\ row_count(fit_into_columns(grid, columns)) < s.row_threshold.thresh

\* From the entry to the first return: the first table, the rows, the name
\* cells, the one-column grid, and the return for a single file.
Begin(r) ==
    /\ pc[r] = "entry"
    /\ LET first == make_table(self[r])
           s1 == first.self
           the_rows == [i \in 1..Len(s1.files) |->
                           row_for_file(first.table, s1.files[i])]
           g == make_grid(s1, 1, FileNames(s1), the_rows)
       IN  /\ self' = [self EXCEPT ![r] = g.self]
           /\ rows' = [rows EXCEPT ![r] = the_rows]
           /\ last_working_grid' = [last_working_grid EXCEPT ![r] = g.grid]
           /\ IF single_file(FileNames(s1))
              THEN /\ result' = [result EXCEPT ![r] = Some(g.grid, 1)]
                   /\ pc' = [pc EXCEPT ![r] = "returned"]
                   /\ UNCHANGED column_count
              ELSE /\ column_count' = [column_count EXCEPT ![r] = 2]
                   /\ pc' = [pc EXCEPT ![r] = "loop"]
                   /\ UNCHANGED result
    /\ UNCHANGED <<trials, output, mg, cell, op, ft>>

\* One iteration of the loop.
Trial(r) ==
    /\ pc[r] = "loop"
    /\ in_range(column_count[r])
    /\ LET s == self[r]
           c == column_count[r]
           g == make_grid(s, c, FileNames(s), rows[r])
           fits == the_grid_fits(s, g.grid, c)
           working == IF fits THEN g.grid ELSE last_working_grid[r]
           last == last_column_count(fits, c)
       IN  /\ self' = [self EXCEPT ![r] = g.self]
           /\ trials' = [trials EXCEPT ![r] = Append(@, c)]
           /\ last_working_grid' = [last_working_grid EXCEPT ![r] = working]
           /\ IF search_ends(fits, c, FileNames(s))
              THEN /\ result' = [result EXCEPT ![r] =
                         IF too_few_rows(s, working, last) THEN None
                         ELSE Some(working, last)]
                   /\ pc' = [pc EXCEPT ![r] = "returned"]
                   /\ UNCHANGED column_count
              ELSE /\ column_count' = [column_count EXCEPT ![r] = c + 1]
                   /\ UNCHANGED <<result, pc>>
    /\ UNCHANGED <<rows, output, mg, cell, op, ft>>

\* Mutant: when the loop runs out the last working grid is returned.
Exhausted_with_last_working_grid(r) ==
    /\ pc[r] = "loop"
    /\ ~in_range(column_count[r])
    /\ result' = [result EXCEPT ![r] = Some(last_working_grid[r], column_count[r] - 1)]
    /\ pc' = [pc EXCEPT ![r] = "returned"]
    /\ UNCHANGED <<self, rows, column_count, last_working_grid, trials, output,
                   mg, cell, op, ft>>

\* The loop ran out of column counts.
Exhausted(r) ==
    /\ pc[r] = "loop"
    /\ ~in_range(column_count[r])
    /\ result' = [result EXCEPT ![r] = None]
    /\ pc' = [pc EXCEPT ![r] = "returned"]
    /\ UNCHANGED <<self, rows, column_count, last_working_grid, trials, output,
                   mg, cell, op, ft>>

\* render: the grid when there is one, the details view otherwise.
Render(r) ==
    /\ pc[r] = "returned"
    /\ output' = [output EXCEPT ![r] = IF result[r].some THEN "grid" ELSE "details"]
    /\ pc' = [pc EXCEPT ![r] = "done"]
    /\ UNCHANGED <<self, rows, column_count, last_working_grid, result, trials,
                   mg, cell, op, ft>>

-----------------------------------------------------------------------------
(* The inputs.                                                             *)

FileKinds == {[attr |-> 1, name |-> 1], [attr |-> 3, name |-> 8]}

SmallFiles == UNION {[1..n -> FileKinds] : n \in 0..MaxN}

\* ColumnLimit - 1 and ColumnLimit files of one kind: the loop's last rounds.
ManyFiles == {[i \in 1..n |-> [attr |-> 1, name |-> 1]] :
                 n \in {ColumnLimit - 1, ColumnLimit}}

RowThresholds ==
    {[kind |-> "AlwaysGrid", thresh |-> 0]}
    \cup {[kind |-> "MinimumRows", thresh |-> k] : k \in 1..MaxThresh}

\* (self.git, self.dir, what the cache has anything for)
GitInputs ==
    {[git |-> "Some", dir |-> "Some", cache |-> {DirPath}],
     [git |-> "Some", dir |-> "None", cache |-> {}]}

Renders(files_set, widths, headers, thresholds, gits) ==
    {[files |-> f, console_width |-> w, across |-> a, header |-> h,
      row_threshold |-> t, git |-> g.git, dir |-> g.dir, cache |-> g.cache] :
        f \in files_set, w \in widths, a \in BOOLEAN, h \in headers,
        t \in thresholds, g \in gits}

Inputs ==
    Renders(SmallFiles, 0..MaxW, BOOLEAN, RowThresholds, GitInputs)
    \cup Renders(ManyFiles, {WideConsole}, {FALSE},
                 {[kind |-> "AlwaysGrid", thresh |-> 0]},
                 {[git |-> "None", dir |-> "Some", cache |-> {}]})

\* No make_grid call under way, no cell under construction.
NoGridCall == [pc |-> "none"]
NoCell == [contents |-> <<>>, length |-> 0]
NoOp == [name |-> "none"]
NoFile == [pc |-> "none"]

\* The runs `ins` (run -> Render) at their entry.
InitRuns(ins) ==
    /\ self = ins
    /\ pc = [r \in DOMAIN ins |-> "entry"]
    /\ rows = [r \in DOMAIN ins |-> <<>>]
    /\ column_count = [r \in DOMAIN ins |-> 0]
    /\ last_working_grid = [r \in DOMAIN ins |-> EmptyGrid]
    /\ result = [r \in DOMAIN ins |-> None]
    /\ trials = [r \in DOMAIN ins |-> <<>>]
    /\ output = [r \in DOMAIN ins |-> "none"]

Init ==
    /\ \E in \in Inputs : InitRuns(<<in>>)
    /\ mg = NoGridCall /\ cell = NoCell /\ op = NoOp /\ ft = NoFile

Next ==
    \/ \E r \in Runs : Begin(r)
    \/ \E r \in Runs : Trial(r)
    \/ \E r \in Runs : Exhausted(r)
    \/ \E r \in Runs : Render(r)

Spec == Init /\ [][Next]_vars

-----------------------------------------------------------------------------
(* SpecScan: one call of render without a Git cache, on the files, console *)
(* widths, directions, header flags and row thresholds of Spec.            *)

ScanInputs ==
    Renders(SmallFiles, 0..MaxW, BOOLEAN, RowThresholds,
            {[git |-> "None", dir |-> "Some", cache |-> {}]})
    \cup Renders(ManyFiles, {WideConsole}, {FALSE},
                 {[kind |-> "AlwaysGrid", thresh |-> 0]},
                 {[git |-> "None", dir |-> "Some", cache |-> {}]})

InitScan ==
    /\ \E in \in ScanInputs : InitRuns(<<in>>)
    /\ mg = NoGridCall /\ cell = NoCell /\ op = NoOp /\ ft = NoFile

SpecScan == InitScan /\ [][Next]_vars

-----------------------------------------------------------------------------
(* SpecPair: run 1 under AlwaysGrid and run 2 under MinimumRows(k) on the  *)
(* same files, console, direction, header flag and Git cache; run 2 starts *)
(* when run 1 is done.                                                     *)

MaxPairN == 3

PairFiles == UNION {[1..n -> FileKinds] : n \in 0..MaxPairN}

PairInputs ==
    Renders(PairFiles, 0..MaxW, BOOLEAN,
            {[kind |-> "AlwaysGrid", thresh |-> 0]}, GitInputs)
    \cup Renders({<<>>}, {WideConsole}, BOOLEAN,
                 {[kind |-> "AlwaysGrid", thresh |-> 0]}, GitInputs)

InitPair ==
    /\ \E in \in PairInputs, k \in 0..MaxThresh :
          InitRuns(<<in, [in EXCEPT !.row_threshold =
                                [kind |-> "MinimumRows", thresh |-> k]]>>)
    /\ mg = NoGridCall /\ cell = NoCell /\ op = NoOp /\ ft = NoFile

Turn(r) == r = 1 \/ pc[1] = "done"

NextPair ==
    \/ \E r \in Runs : Turn(r) /\ Begin(r)
    \/ \E r \in Runs : Turn(r) /\ Trial(r)
    \/ \E r \in Runs : Turn(r) /\ Exhausted(r)
    \/ \E r \in Runs : Turn(r) /\ Render(r)

SpecPair == InitPair /\ [][NextPair]_vars

-----------------------------------------------------------------------------
(* SpecGit: one call of render for each way the Git cache can be: supplied *)
(* or not, with or without a directory, and having something for the      *)
(* directory, for the first file, for the last file, or for none of them.  *)

GitCases ==
    {[git |-> "Some", dir |-> d, cache |-> c] :
        d \in {"Some", "None"}, c \in SUBSET {DirPath, 1, MaxPairN}}
    \cup {[git |-> "None", dir |-> d, cache |-> {}] : d \in {"Some", "None"}}

GitInputsAll ==
    Renders(PairFiles, {0, MaxW}, BOOLEAN,
            {[kind |-> "AlwaysGrid", thresh |-> 0]}, GitCases)
    \cup Renders({<<>>}, {WideConsole}, {FALSE},
                 {[kind |-> "AlwaysGrid", thresh |-> 0]},
                 {[git |-> "Some", dir |-> "Some", cache |-> {DirPath}]})

InitGit ==
    /\ \E in \in GitInputsAll : InitRuns(<<in>>)
    /\ mg = NoGridCall /\ cell = NoCell /\ op = NoOp /\ ft = NoFile

SpecGit == InitGit /\ [][Next]_vars

-----------------------------------------------------------------------------
(* SpecGrid: one call of make_grid, as find_fitting_grid makes it (after   *)
(* the first make_table, with the rows of the first table).                *)

MaxGridN == 7

GridFiles == UNION {[1..n -> FileKinds] : n \in 0..MaxGridN}

\* The column counts make_grid is called with: 1..N for N files (1 and the
\* loop's first for none).
GridColumnCounts(files) == IF Len(files) = 0 THEN {1, 2} ELSE 1..Len(files)

GridCallFor(in, c) ==
    LET first == make_table(in)
    IN  [pc |-> "call", self |-> first.self, column_count |-> c,
         file_names |-> FileNames(first.self),
         rows |-> [i \in 1..Len(in.files) |-> row_for_file(first.table, in.files[i])],
         tables |-> <<>>, grid |-> EmptyGrid, panic |-> FALSE]

GridCalls ==
    {GridCallFor(in, c) :
        in \in Renders(GridFiles, {0}, BOOLEAN,
                       {[kind |-> "AlwaysGrid", thresh |-> 0]}, GitInputs),
        c \in 1..MaxGridN} 

InitGrid ==
    /\ mg \in {call \in GridCalls : call.column_count \in GridColumnCounts(call.self.files)}
    /\ InitRuns(<<>>)
    /\ cell = NoCell /\ op = NoOp /\ ft = NoFile

MakeGrid ==
    /\ mg.pc = "call"
    /\ LET g == make_grid(mg.self, mg.column_count, mg.file_names, mg.rows)
       IN  mg' = [mg EXCEPT !.pc = "returned", !.self = g.self, !.tables = g.tables,
                            !.grid = g.grid, !.panic = g.panic]
    /\ UNCHANGED <<runVars, cell, op, ft>>

NextGrid == MakeGrid

SpecGrid == InitGrid /\ [][NextGrid]_vars

-----------------------------------------------------------------------------
(* SpecCell: a TextCell is built by paint or blank and then changed by     *)
(* add_spaces, push and append.  A string is a sequence of characters, a   *)
(* fragment of the contents is a string (the style of an ANSIString takes  *)
(* no columns and is left out).                                            *)

MaxText == 1
MaxSpaces == 1
MaxPushLength == 2
MaxCellOps == 2

\* A character two columns wide, and one no column wide; the hyphen and the
\* space take one column.
Chars == {"wide", "combining"}

CharWidth(ch) ==
    CASE ch = "wide" -> 2
      [] ch = "combining" -> 0
      [] OTHER -> 1

\* UnicodeWidthStr::width
width(text) == SumSeq([i \in 1..Len(text) |-> CharWidth(text[i])])

Texts == UNION {[1..n -> Chars] : n \in 0..MaxText}

\* The columns the fragments of a cell take when printed.
ContentWidth(contents) == SumSeq([i \in 1..Len(contents) |-> width(contents[i])])

paint(text) == [contents |-> <<text>>, length |-> width(text)]

blank == [contents |-> << <<"-">> >>, length |-> 1]

\* Mutant: the spaces are added and the length is left as it was.
add_spaces_length_forgotten(c, count) ==
    [contents |-> Append(c.contents, [i \in 1..count |-> " "]),
     length   |-> c.length]

add_spaces(c, count) ==
    [contents |-> Append(c.contents, [i \in 1..count |-> " "]),
     length   |-> c.length + count]

push(c, string, length) ==
    [contents |-> Append(c.contents, string),
     length   |-> c.length + length]

append(c, other) ==
    [contents |-> c.contents \o other.contents,
     length   |-> c.length + other.length]

\* The cells that append is given: painted, blank, or a blank one pushed to.
OtherCells ==
    {paint(text) : text \in Texts} \cup {blank}
    \cup {push(blank, string, length) : string \in Texts, length \in 0..MaxPushLength}

InitCell ==
    /\ cell = NoCell /\ op = NoOp /\ ft = NoFile
    /\ InitRuns(<<>>)
    /\ mg = NoGridCall

Built == op.name # "none"

Paint ==
    /\ ~Built
    /\ \E text \in Texts :
          /\ cell' = paint(text)
          /\ op' = [name |-> "paint", ops |-> 0, text |-> text]
    /\ UNCHANGED <<runVars, mg, ft>>

Blank ==
    /\ ~Built
    /\ cell' = blank
    /\ op' = [name |-> "blank", ops |-> 0]
    /\ UNCHANGED <<runVars, mg, ft>>

AddSpaces ==
    /\ Built /\ op.ops < MaxCellOps
    /\ \E count \in 0..MaxSpaces :
          /\ cell' = add_spaces(cell, count)
          /\ op' = [name |-> "add_spaces", ops |-> op.ops + 1, count |-> count]
    /\ UNCHANGED <<runVars, mg, ft>>

Push ==
    /\ Built /\ op.ops < MaxCellOps
    /\ \E string \in Texts, length \in 0..MaxPushLength :
          /\ cell' = push(cell, string, length)
          /\ op' = [name |-> "push", ops |-> op.ops + 1,
                    string |-> string, length |-> length]
    /\ UNCHANGED <<runVars, mg, ft>>

AppendCell ==
    /\ Built /\ op.ops < MaxCellOps
    /\ \E other \in OtherCells :
          /\ cell' = append(cell, other)
          /\ op' = [name |-> "append", ops |-> op.ops + 1, other |-> other]
    /\ UNCHANGED <<runVars, mg, ft>>

NextCell == Paint \/ Blank \/ AddSpaces \/ Push \/ AppendCell

SpecCell == InitCell /\ [][NextCell]_vars

-----------------------------------------------------------------------------
(* SpecType: one call of FileType::get_file_type.  A name is a sequence of *)
(* characters.  A file has its name, its extension (what follows the last  *)
(* dot of the name, in lowercase, if there is a dot), its parent directory *)
(* if it has one (the paths the directory contains) and the paths of the   *)
(* source files it could be compiled from.                                 *)

\* str::to_lowercase, on the characters of the names drawn here.
LowerChar(ch) ==
    CASE ch = "A" -> "a" [] ch = "D" -> "d" [] ch = "E" -> "e"
      [] ch = "F" -> "f" [] ch = "G" -> "g" [] ch = "I" -> "i"
      [] ch = "K" -> "k" [] ch = "L" -> "l" [] ch = "M" -> "m"
      [] ch = "N" -> "n" [] ch = "P" -> "p" [] ch = "R" -> "r"
      [] OTHER -> ch

to_lowercase(name) == [i \in 1..Len(name) |-> LowerChar(name[i])]

starts_with(name, prefix) ==
    /\ Len(name) >= Len(prefix)
    /\ SubSeq(name, 1, Len(prefix)) = prefix

ends_with(name, suffix) ==
    /\ Len(name) >= Len(suffix)
    /\ SubSeq(name, Len(name) - Len(suffix) + 1, Len(name)) = suffix

\* Option<String>
NoString == [some |-> FALSE, value |-> <<>>]
SomeString(string) == [some |-> TRUE, value |-> string]

\* File::ext: what follows the last dot of the name, in lowercase.
ext(name) ==
    LET dots == {i \in 1..Len(name) : name[i] = "."}
    IN  IF dots = {} THEN NoString
        ELSE SomeString(to_lowercase(SubSeq(name, Max(dots) + 1, Len(name))))

\* FILENAME_TYPES: the entries for "Makefile", "RoboFile.php" and "id_rsa".
FILENAME_TYPES ==
    {[key |-> <<"M", "a", "k", "e", "f", "i", "l", "e">>, value |-> "Build"],
     [key |-> <<"R", "o", "b", "o", "F", "i", "l", "e", ".", "p", "h", "p">>, value |-> "Build"],
     [key |-> <<"i", "d", "_", "r", "s", "a">>, value |-> "Crypto"]}

\* EXTENSION_TYPES: the entries for "png", "tmp", "o", "php" and "rs".
EXTENSION_TYPES ==
    {[key |-> <<"p", "n", "g">>, value |-> "Image"],
     [key |-> <<"t", "m", "p">>, value |-> "Temp"],
     [key |-> <<"o">>, value |-> "Compiled"],
     [key |-> <<"p", "h", "p">>, value |-> "Source"],
     [key |-> <<"r", "s">>, value |-> "Source"]}

\* Map::get: the value of the key, "None" without the key.
MapGet(map, key) ==
    IF \E e \in map : e.key = key
    THEN (CHOOSE e \in map : e.key = key).value
    ELSE "None"

\* Mutant: the extension is looked up before the name.
get_file_type_extension_first(file) ==
    IF starts_with(to_lowercase(file.name), <<"r", "e", "a", "d", "m", "e">>) THEN "Build"
    ELSE IF file.ext.some /\ MapGet(EXTENSION_TYPES, file.ext.value) # "None"
    THEN MapGet(EXTENSION_TYPES, file.ext.value)
    ELSE IF MapGet(FILENAME_TYPES, file.name) # "None"
    THEN MapGet(FILENAME_TYPES, file.name)
    ELSE IF \/ ends_with(file.name, <<"~">>)
            \/ starts_with(file.name, <<"#">>) /\ ends_with(file.name, <<"#">>)
    THEN "Temp"
    ELSE IF /\ file.parent_dir.some
            /\ \E path \in file.source_files : path \in file.parent_dir.contains
    THEN "Compiled"
    ELSE "None"

\* FileType::get_file_type: "None" for None, the type's name for Some(type).
get_file_type(file) ==
    IF starts_with(to_lowercase(file.name), <<"r", "e", "a", "d", "m", "e">>) THEN "Build"
    ELSE IF MapGet(FILENAME_TYPES, file.name) # "None"
    THEN MapGet(FILENAME_TYPES, file.name)
    ELSE IF file.ext.some /\ MapGet(EXTENSION_TYPES, file.ext.value) # "None"
    THEN MapGet(EXTENSION_TYPES, file.ext.value)
    ELSE IF \/ ends_with(file.name, <<"~">>)
            \/ starts_with(file.name, <<"#">>) /\ ends_with(file.name, <<"#">>)
    THEN "Temp"
    ELSE IF /\ file.parent_dir.some
            /\ \E path \in file.source_files : path \in file.parent_dir.contains
    THEN "Compiled"
    ELSE "None"

\* The names drawn: a "#" or nothing, a stem, an extension or none, and a
\* "~", a "#" or nothing.
Stems ==
    {<<"r", "e", "a", "d", "m", "e">>, <<"R", "E", "A", "D", "M", "E">>, <<"R", "e", "a", "d", "M", "e">>, <<"M", "a", "k", "e", "f", "i", "l", "e">>, <<"M", "A", "K", "E", "F", "I", "L", "E">>, <<"R", "o", "b", "o", "F", "i", "l", "e">>, <<"i", "d", "_", "r", "s", "a">>, <<"m", "a", "i", "n">>}

Extensions ==
    {<<>>, <<".", "m", "d">>, <<".", "o">>, <<".", "r", "s">>, <<".", "p", "h", "p">>, <<".", "P", "N", "G">>, <<".", "t", "m", "p">>, <<".", "a", "u", "x">>}

Names ==
    {pre \o stem \o extension \o post :
        pre \in {<<>>, <<"#">>}, stem \in Stems, extension \in Extensions,
        post \in {<<>>, <<"~">>, <<"#">>}}

\* The parent directory (none, or the paths it contains) and the paths of
\* the source files: path 1 is a source file, path 2 is some other file.
ParentDirs ==
    {[some |-> FALSE, contains |-> {}]}
    \cup {[some |-> TRUE, contains |-> c] : c \in SUBSET {1, 2}}

Files ==
    {[name |-> name, ext |-> ext(name), parent_dir |-> dir, source_files |-> sources] :
        name \in Names, dir \in ParentDirs, sources \in {{}, {1}}}

InitType ==
    /\ ft \in {[pc |-> "call", file |-> file, result |-> "None"] : file \in Files}
    /\ InitRuns(<<>>)
    /\ mg = NoGridCall /\ cell = NoCell /\ op = NoOp

GetFileType ==
    /\ ft.pc = "call"
    /\ ft' = [ft EXCEPT !.pc = "returned", !.result = get_file_type(ft.file)]
    /\ UNCHANGED <<runVars, mg, cell, op>>

NextType == GetFileType

SpecType == InitType /\ [][NextType]_vars

-----------------------------------------------------------------------------
(* What the claims speak of.                                               *)

N(r) == Len(self[r].files)

\* find_fitting_grid has returned.
Returned(r) == pc[r] \in {"returned", "done"}

\* The grid make_grid builds for c columns from the run's files.
GridFor(r, c) == make_grid(self[r], c, FileNames(self[r]), rows[r]).grid

\* The width of a grid laid out in c columns.
LaidOutWidth(grid, c) == DisplayWidth(fit_into_columns(grid, c))

\* The grid of c columns is no wider than the console.
Fits(r, c) == LaidOutWidth(GridFor(r, c), c) <= self[r].console_width

\* The largest column count the loop can reach.
MostColumns(r) == IF N(r) < ColumnLimit - 1 THEN N(r) ELSE ColumnLimit - 1

\* The rows of the returned grid.
ResultRows(r) == row_count(fit_into_columns(result[r].grid, result[r].width))

-----------------------------------------------------------------------------
(* C1 *)

\* C1 as stated: for N >= 1 files, find_fitting_grid returns give-up or a
\* grid whose width, laid out in the returned column count, is at most the
\* console width.
C1_NeverWiderThanConsole ==
    \A r \in Runs :
        (Returned(r) /\ N(r) >= 1 /\ result[r].some)
            => LaidOutWidth(result[r].grid, result[r].width)
                  <= self[r].console_width

\* C1 amended: for N >= 1 files, find_fitting_grid returns give-up, or the
\* one-column grid with column count 1 (which is never measured), or a grid
\* of c >= 2 columns whose width laid out in c columns is at most the
\* console width.
C1_FitsUnlessOneColumn ==
    \A r \in Runs :
        (Returned(r) /\ N(r) >= 1 /\ result[r].some)
            => \/ /\ result[r].width = 1
                  /\ result[r].grid = GridFor(r, 1)
               \/ /\ result[r].width >= 2
                  /\ LaidOutWidth(result[r].grid, result[r].width)
                        <= self[r].console_width

\* A grid of three columns or more is returned that fills the console exactly.
C1_Witness ==
    \E r \in Runs :
        /\ Returned(r) /\ result[r].some /\ result[r].width >= 3
        /\ LaidOutWidth(result[r].grid, result[r].width) = self[r].console_width

-----------------------------------------------------------------------------
(* C2 *)

\* C2 as stated: the returned column count is the largest c in
\* 1..min(99, N) whose grid fits the console width.
C2_LargestFittingCount ==
    \A r \in Runs :
        (Returned(r) /\ N(r) >= 1 /\ result[r].some)
            => /\ result[r].width \in 1..MostColumns(r)
               /\ Fits(r, result[r].width)
               /\ \A c \in 1..MostColumns(r) : Fits(r, c) => c <= result[r].width

\* C2 amended: the returned column count is the largest c in 1..min(99, N)
\* such that every column count in 2..c fits the console width (the scan
\* stops at the first column count that does not fit, and the one-column
\* grid is not measured); the returned grid is the grid of c columns.
C2_LargestCountOfScan ==
    \A r \in Runs :
        (Returned(r) /\ N(r) >= 1 /\ result[r].some)
            => LET c == result[r].width
               IN  /\ c \in 1..MostColumns(r)
                   /\ \A k \in 2..c : Fits(r, k)
                   /\ c < MostColumns(r) => ~Fits(r, c + 1)
                   /\ result[r].grid = GridFor(r, c)

\* The scan stopped at two columns although three columns fit: the
\* one-column grid is returned.
C2_Witness ==
    \E r \in Runs :
        /\ Returned(r) /\ result[r].some /\ N(r) >= 3
        /\ result[r].width = 1 /\ ~Fits(r, 2) /\ Fits(r, 3)

\* Three columns are returned of four files, the fourth column does not fit.
C2_WitnessScan ==
    \E r \in Runs :
        /\ Returned(r) /\ result[r].some /\ N(r) = 4
        /\ result[r].width = 3 /\ ~Fits(r, 4)

-----------------------------------------------------------------------------
(* C3 *)

\* C3 as stated: for N >= 2 files, when the two-column grid does not fit,
\* find_fitting_grid gives up (None).
C3_GivesUpWhenTwoColumnsDoNotFit ==
    \A r \in Runs :
        (Returned(r) /\ N(r) >= 2 /\ ~Fits(r, 2)) => ~result[r].some

\* C3 amended: for N >= 2 files, when the two-column grid does not fit (so
\* with a console width of 0), the search ends after that one trial and
\* find_fitting_grid returns the one-column grid with column count 1; it
\* gives up (None) only when the row threshold is MinimumRows(k) and the
\* one-column grid has fewer than k rows.
C3_OneColumnGridWhenTwoColumnsDoNotFit ==
    \A r \in Runs :
        (Returned(r) /\ N(r) >= 2 /\ ~Fits(r, 2))
            => /\ trials[r] = <<2>>
               /\ result[r] =
                    IF /\ self[r].row_threshold.kind = "MinimumRows"
                       /\ row_count(fit_into_columns(GridFor(r, 1), 1))
                             < self[r].row_threshold.thresh
                    THEN None
                    ELSE Some(GridFor(r, 1), 1)
               /\ self[r].console_width = 0 => ~Fits(r, 2)

\* Two columns do not fit a console of width 0, a grid is returned and
\* render has written it.
C3_Witness ==
    \E r \in Runs :
        /\ pc[r] = "done" /\ N(r) >= 2 /\ self[r].console_width = 0
        /\ ~Fits(r, 2) /\ result[r].some /\ output[r] = "grid"

-----------------------------------------------------------------------------
(* C4 *)

-----------------------------------------------------------------------------
(* C5 (SpecPair) *)

\* C5: on the same files, width, direction and header flag, the result
\* under AlwaysGrid (run 1) equals the result under MinimumRows(0), whenever
\* MinimumRows(k) (run 2) returns a grid AlwaysGrid returns the same grid and
\* column count, and AlwaysGrid gives up only when the loop ran out of
\* column counts, never for the row count.
C5_AlwaysGridNeverRejects ==
    (Returned(1) /\ Returned(2))
    => /\ self[1].row_threshold.kind = "AlwaysGrid"
       /\ self[2].row_threshold.kind = "MinimumRows"
       /\ self[2].row_threshold.thresh = 0 => result[2] = result[1]
       /\ result[2].some => result[1] = result[2]
       /\ ~result[1].some => /\ ~in_range(column_count[1])
                             /\ Len(trials[1]) = ColumnLimit - 2

\* MinimumRows(k) rejects for the rows the grid of two columns or more that
\* AlwaysGrid returns.
C5_Witness ==
    /\ Returned(1) /\ Returned(2)
    /\ result[1].some /\ result[1].width >= 2
    /\ ~result[2].some
    /\ ResultRows(1) < self[2].row_threshold.thresh

-----------------------------------------------------------------------------
(* C6 *)

\* C6 as stated: a single file is returned as the one-column grid, with no
\* trial, when the console width holds its row, and given up otherwise.
C6_SingleFileFitsOrGivesUp ==
    \A r \in Runs :
        (Returned(r) /\ N(r) = 1)
            => /\ trials[r] = <<>>
               /\ result[r] = IF Fits(r, 1) THEN Some(GridFor(r, 1), 1) ELSE None

\* C6 amended: a single file is returned as the one-column grid with column
\* count 1, with no trial, whatever the console width and the row threshold;
\* find_fitting_grid never gives up on a single file.
C6_SingleFileAlwaysOneColumn ==
    \A r \in Runs :
        (Returned(r) /\ N(r) = 1)
            => /\ trials[r] = <<>>
               /\ result[r] = Some(GridFor(r, 1), 1)

\* A single file wider than the console is returned as a grid.
C6_Witness ==
    \E r \in Runs :
        /\ Returned(r) /\ N(r) = 1 /\ ~Fits(r, 1)
        /\ result[r].some /\ result[r].width = 1

-----------------------------------------------------------------------------
(* C10 *)

\* C10: the loop evaluates the column counts 2, 3, ... in increasing order,
\* each at most once, never one of 100 or more and, for N >= 2 files, never
\* one greater than N; while it runs the next column count is the one after
\* the last evaluated and at most 100, so it ends after at most 98 trials.
C10_TrialsBounded ==
    \A r \in Runs :
        /\ \A k \in 1..Len(trials[r]) : trials[r][k] = k + 1
        /\ \A k \in 1..Len(trials[r]) : trials[r][k] < ColumnLimit
        /\ N(r) >= 2 => \A k \in 1..Len(trials[r]) : trials[r][k] <= N(r)
        /\ pc[r] = "loop" =>
              /\ column_count[r] = Len(trials[r]) + 2
              /\ column_count[r] <= ColumnLimit
        /\ Len(trials[r]) <= ColumnLimit - 2

\* The loop has evaluated every column count from 2 to 99 and returned.
C10_Witness ==
    \E r \in Runs :
        /\ Returned(r) /\ Len(trials[r]) = ColumnLimit - 2
        /\ trials[r][Len(trials[r])] = ColumnLimit - 1

-----------------------------------------------------------------------------
(* C7, C8: the tables of one make_grid call (SpecGrid).                    *)

GridN == Len(mg.self.files)

\* The files (1-based) whose rows table j holds.
FilesOfTable(j) ==
    {mg.tables[j].rows[k] : k \in 1..Len(mg.tables[j].rows)} \ {0}

\* Every file has one row in table j at most, in file order.
RowsInFileOrder(j) ==
    \A k1, k2 \in 1..Len(mg.tables[j].rows) :
        k1 < k2 => mg.tables[j].rows[k1] < mg.tables[j].rows[k2]

\* C7: in Down direction, for N >= 1 files and 1 <= c <= N, file i (0-based)
\* is in table i / ceil(N/c) and in no other, that index is < c, every table
\* before the last populated one holds exactly ceil(N/c) files, and no empty
\* table precedes a non-empty one.
C7_DownDistribution ==
    (mg.pc = "returned" /\ ~mg.self.across /\ GridN >= 1
        /\ mg.column_count \in 1..GridN)
    => LET n == GridN
           c == mg.column_count
           per == (n + c - 1) \div c
           last == Max({j \in 1..c : FilesOfTable(j) # {}})
       IN  /\ ~mg.panic
           /\ Len(mg.tables) = c
           /\ \A i \in 0..n-1 :
                /\ i \div per < c
                /\ \A j \in 0..c-1 : (i + 1 \in FilesOfTable(j + 1)) <=> (j = i \div per)
           /\ \A j \in 1..c : RowsInFileOrder(j)
           /\ \A j \in 1..c : j < last => Cardinality(FilesOfTable(j)) = per
           /\ Cardinality(FilesOfTable(last)) \in 1..per
           /\ \A j \in 1..c : j > last => FilesOfTable(j) = {}

\* Seven files down three columns: {0,1,2}, {3,4,5}, {6}.
C7_Witness ==
    /\ mg.pc = "returned" /\ ~mg.self.across /\ GridN = 7 /\ mg.column_count = 3
    /\ FilesOfTable(1) = {1, 2, 3}
    /\ FilesOfTable(2) = {4, 5, 6}
    /\ FilesOfTable(3) = {7}

\* C8: in Across direction, for N >= 1 files and 1 <= c <= N, file i
\* (0-based) is in table i mod c and in no other, the table sizes differ by
\* at most one with the larger tables first, and with c = N every table holds
\* exactly one file.
C8_AcrossDistribution ==
    (mg.pc = "returned" /\ mg.self.across /\ GridN >= 1
        /\ mg.column_count \in 1..GridN)
    => LET n == GridN
           c == mg.column_count
           size == [j \in 1..c |-> Cardinality(FilesOfTable(j))]
       IN  /\ ~mg.panic
           /\ Len(mg.tables) = c
           /\ \A i \in 0..n-1 :
                \A j \in 0..c-1 : (i + 1 \in FilesOfTable(j + 1)) <=> (j = i % c)
           /\ \A j \in 1..c : RowsInFileOrder(j)
           /\ \A j \in 1..c-1 : size[j] >= size[j + 1]
           /\ size[1] - size[c] <= 1
           /\ c = n => \A j \in 1..c : size[j] = 1

\* Seven files across three columns: {0,3,6}, {1,4}, {2,5}.
C8_Witness ==
    /\ mg.pc = "returned" /\ mg.self.across /\ GridN = 7 /\ mg.column_count = 3
    /\ FilesOfTable(1) = {1, 4, 7}
    /\ FilesOfTable(2) = {2, 5}
    /\ FilesOfTable(3) = {3, 6}

-----------------------------------------------------------------------------
(* C9 (SpecCell) *)

\* C9 as stated: whatever the operations were, the stored length of a built
\* cell is the sum of the display widths of its fragments.
C9_LengthIsContentWidth ==
    Built => cell.length = ContentWidth(cell.contents)

\* C9: every operation changes the stored length by what it is told and the
\* content by what it adds: paint stores the display width of its text, blank
\* stores 1, add_spaces(n) adds n to both, append adds the other cell's
\* stored length, push adds the length it is given; the stored length and
\* the width of the content stay equal over every step except a push whose
\* length is not the width of its string and an append of a cell whose
\* length is not the width of its content.
C9_LengthFollowsOperations ==
    [][ /\ op'.name = "paint" =>
            /\ cell'.length = width(op'.text)
            /\ cell'.length = ContentWidth(cell'.contents)
        /\ op'.name = "blank" =>
            /\ cell'.length = 1
            /\ ContentWidth(cell'.contents) = 1
        /\ op'.name = "add_spaces" =>
            /\ cell'.length = cell.length + op'.count
            /\ ContentWidth(cell'.contents) = ContentWidth(cell.contents) + op'.count
        /\ op'.name = "append" =>
            /\ cell'.length = cell.length + op'.other.length
            /\ ContentWidth(cell'.contents)
                 = ContentWidth(cell.contents) + ContentWidth(op'.other.contents)
        /\ op'.name = "push" =>
            /\ cell'.length = cell.length + op'.length
            /\ ContentWidth(cell'.contents) = ContentWidth(cell.contents) + width(op'.string)
        /\ ( /\ Built
             /\ cell.length = ContentWidth(cell.contents)
             /\ op'.name = "push" => op'.length = width(op'.string)
             /\ op'.name = "append" =>
                    op'.other.length = ContentWidth(op'.other.contents) )
           => cell'.length = ContentWidth(cell'.contents)
      ]_<<cell, op>>

\* A cell painted with a wide character, padded, and pushed to with the true
\* width of the string: the length is the width of the content.
C9_Witness ==
    /\ op.name = "push" /\ op.ops = MaxCellOps
    /\ op.length = width(op.string) /\ op.length > 0
    /\ cell.contents[1] = <<"wide">>
    /\ cell.contents[2] = <<" ">>
    /\ cell.length = ContentWidth(cell.contents)
    /\ cell.length = 5

-----------------------------------------------------------------------------
(* C11 (SpecGrid) *)

\* The width of the grid make_grid builds for c columns from the files of
\* the call, laid out in c columns.
WidthAt(c) ==
    LaidOutWidth(make_grid(mg.self, c, mg.file_names, mg.rows).grid, c)

\* C11 as stated: for fixed files, direction and header flag, the laid-out
\* width is non-decreasing in the column count: width(c) <= width(c + 1) for
\* 1 <= c < N.
C11_WidthNonDecreasing ==
    (mg.pc = "returned" /\ mg.column_count \in 1..(GridN - 1))
    => LaidOutWidth(mg.grid, mg.column_count) <= WidthAt(mg.column_count + 1)

\* C11 amended: the laid-out width of c columns, 1 <= c <= N, is never less
\* than the width of the one-column grid plus the c - 1 gaps of 4; it is not
\* monotone between one column count and the next.
C11_NoNarrowerThanOneColumn ==
    (mg.pc = "returned" /\ mg.column_count \in 1..GridN)
    => LaidOutWidth(mg.grid, mg.column_count)
          >= WidthAt(1) + Filling * (mg.column_count - 1)

\* Four files across: two columns are wider than three.
C11_Witness ==
    /\ mg.pc = "returned" /\ mg.self.across /\ ~mg.self.header
    /\ GridN = 4 /\ mg.column_count = 2
    /\ LaidOutWidth(mg.grid, 2) > WidthAt(3)
    /\ WidthAt(3) >= WidthAt(1) + Filling * 2

-----------------------------------------------------------------------------
(* C12 (SpecScan) *)

\* The column counts of 2..N whose grid does not fit the console.
Failing(r) == {c \in 2..N(r) : ~Fits(r, c)}

\* What the row-threshold check makes of column count c and its grid.
Handed(r, c) ==
    IF /\ self[r].row_threshold.kind = "MinimumRows"
       /\ row_count(fit_into_columns(GridFor(r, c), c)) < self[r].row_threshold.thresh
    THEN None
    ELSE Some(GridFor(r, c), c)

\* C12: for 2 <= N <= 99 files, with f the smallest column count of 2..N
\* that does not fit, the trials are 2..f and no more, and f - 1 with the
\* grid of f - 1 columns (the one-column grid when f = 2) goes to the
\* row-threshold check; when every count of 2..N fits the trials are 2..N
\* and N with its grid goes to the check.
C12_ForwardScanStopsAtFirstFailure ==
    \A r \in Runs :
        (Returned(r) /\ N(r) >= 2 /\ N(r) <= ColumnLimit - 1)
            => LET failing == Failing(r)
               IN  IF failing # {}
                   THEN LET f == CHOOSE c \in failing : \A d \in failing : c <= d
                        IN  /\ trials[r] = [k \in 1..(f - 1) |-> k + 1]
                            /\ result[r] = Handed(r, f - 1)
                   ELSE /\ trials[r] = [k \in 1..(N(r) - 1) |-> k + 1]
                        /\ result[r] = Handed(r, N(r))

\* Of four files two columns fit and three do not: the scan stopped at three
\* and two columns are returned.
C12_Witness ==
    \E r \in Runs :
        /\ Returned(r) /\ N(r) = 4
        /\ Fits(r, 2) /\ ~Fits(r, 3)
        /\ trials[r] = <<2, 3>>
        /\ result[r].some /\ result[r].width = 2

\* Every column count of 2..N fits: the scan stopped at N.
C12_WitnessAllFit ==
    \E r \in Runs :
        /\ Returned(r) /\ N(r) = 4 /\ Failing(r) = {}
        /\ trials[r] = <<2, 3, 4>> /\ result[r].some /\ result[r].width = 4

-----------------------------------------------------------------------------
(* C13 *)

\* C13 as stated: with more than 99 files and every column count of 2..99
\* fitting the console, find_fitting_grid returns the grid of 99 columns,
\* subject to the row-threshold check only.
C13_ReturnsLastColumnCountOfRange ==
    \A r \in Runs :
        (/\ Returned(r) /\ N(r) > ColumnLimit - 1
         /\ \A c \in 2..(ColumnLimit - 1) : Fits(r, c))
            => result[r] = Handed(r, ColumnLimit - 1)

\* C13 amended: with more than 99 files and every column count of 2..99
\* fitting the console, the loop runs out after the trial of 99 columns,
\* whose grid fitted and is held in last_working_grid, and find_fitting_grid
\* gives up (None) whatever the row threshold.
C13_GivesUpAfterLastColumnCount ==
    \A r \in Runs :
        (/\ Returned(r) /\ N(r) > ColumnLimit - 1
         /\ \A c \in 2..(ColumnLimit - 1) : Fits(r, c))
            => /\ result[r] = None
               /\ Len(trials[r]) = ColumnLimit - 2
               /\ last_working_grid[r] = GridFor(r, ColumnLimit - 1)

\* A hundred files on a console that holds 99 columns: 98 trials, then None.
C13_Witness ==
    \E r \in Runs :
        /\ Returned(r) /\ N(r) = ColumnLimit
        /\ Fits(r, ColumnLimit - 1)
        /\ Len(trials[r]) = ColumnLimit - 2
        /\ ~result[r].some

-----------------------------------------------------------------------------
(* C14 (SpecGrid) *)

\* What the cells of the grid hold, in order: 0 for a header, i for file i.
CellContents == [k \in 1..Len(mg.grid.cells) |-> mg.grid.cells[k].contents]

IsFileCell(contents) == contents # 0

\* C14: for N >= 1 files and 1 <= c <= N, in both directions, the grid has
\* N cells, and c more with the header; every file has exactly one cell, the
\* file cells are in the order of the file list, and the other cells are the
\* c headers.
C14_OneCellPerSlot ==
    (mg.pc = "returned" /\ GridN >= 1 /\ mg.column_count \in 1..GridN)
    => /\ Len(mg.grid.cells)
            = GridN + (IF mg.self.header THEN mg.column_count ELSE 0)
       /\ SelectSeq(CellContents, IsFileCell) = [i \in 1..GridN |-> i]
       /\ Cardinality({k \in 1..Len(CellContents) : ~IsFileCell(CellContents[k])})
            = (IF mg.self.header THEN mg.column_count ELSE 0)
       /\ \A k \in 1..Len(mg.grid.cells) :
             \E j \in 1..mg.column_count :
                /\ \E x \in 1..Len(mg.tables[j].rows) :
                      mg.tables[j].rows[x] = CellContents[k]
                /\ mg.grid.cells[k].width
                     = RenderedWidth(mg.tables[j], CellContents[k], mg.rows, mg.file_names)

\* Five files across two columns with headers: both headers, then the files.
C14_Witness ==
    /\ mg.pc = "returned" /\ mg.self.across /\ mg.self.header
    /\ GridN = 5 /\ mg.column_count = 2
    /\ CellContents = <<0, 0, 1, 2, 3, 4, 5>>

\* Five files down two columns with headers: a header, three files, a
\* header, two files.
C14_WitnessDown ==
    /\ mg.pc = "returned" /\ ~mg.self.across /\ mg.self.header
    /\ GridN = 5 /\ mg.column_count = 2
    /\ CellContents = <<0, 1, 2, 3, 0, 4, 5>>

-----------------------------------------------------------------------------
(* C15 (SpecGrid) *)

\* The tables the same call fills with the headers disabled.
TablesWithoutHeader ==
    make_grid([mg.self EXCEPT !.header = FALSE], mg.column_count,
              mg.file_names, mg.rows).tables

\* C15: with the headers enabled every file is in the table it is in with
\* the headers disabled, in both directions; each of the c tables, also one
\* that gets no file, has one header row, it is the first row, and the
\* widths of the table are the larger of the header's and the files'.
C15_HeadersLeaveAssignment ==
    (mg.pc = "returned" /\ mg.self.header)
    => /\ Len(mg.tables) = mg.column_count
       /\ \A j \in 1..mg.column_count :
            LET with == mg.tables[j]
                without == TablesWithoutHeader[j]
            IN  /\ with.rows = <<0>> \o without.rows
                /\ \A k \in 1..Len(without.rows) : without.rows[k] # 0
                /\ with.has_git = without.has_git
                /\ with.widths.attr = Max({HeaderRow.attr, without.widths.attr})
                /\ with.widths.git =
                      IF with.has_git THEN Max({HeaderRow.git, without.widths.git})
                      ELSE 0

\* Five files down four columns with headers: the fourth table holds its
\* header and no file, and has the header's width.
C15_Witness ==
    /\ mg.pc = "returned" /\ mg.self.header /\ ~mg.self.across
    /\ GridN = 5 /\ mg.column_count = 4
    /\ mg.tables[3].rows = <<0, 5>>
    /\ mg.tables[4].rows = <<0>>
    /\ mg.tables[4].widths.attr = HeaderRow.attr
    /\ TablesWithoutHeader[4].rows = <<>>

-----------------------------------------------------------------------------
(* C16 (SpecGit) *)

\* The cache has something to report for the directory, or for one of the
\* files when there is no directory.
HasSomething(s) ==
    IF s.dir = "Some" THEN DirPath \in s.cache
    ELSE \E i \in 1..Len(s.files) : i \in s.cache

\* The tables of the make_grid call the step makes, if it makes one.
TablesOfStep(r) ==
    IF pc[r] = "entry"
    THEN make_grid(make_table(self[r]).self, 1, FileNames(self[r]), rows'[r]).tables
    ELSE make_grid(self[r], column_count[r], FileNames(self[r]), rows[r]).tables

\* C16: the first make_table of a find_fitting_grid call keeps a supplied
\* Git cache exactly when the cache has something to report for the
\* directory (for one of the files when there is no directory) and drops it
\* otherwise; after that self.git never changes, a cache that is dropped or
\* was not supplied is never there again, and every table of every trial,
\* and every row, has the Git column exactly when the cache was kept.
C16_GitColumnDecidedOnce ==
    [][ \A r \in Runs :
          /\ pc[r] = "entry" =>
                (self'[r].git = "Some"
                    <=> (self[r].git = "Some" /\ HasSomething(self[r])))
          /\ pc[r] # "entry" => self'[r].git = self[r].git
          /\ self[r].git = "None" => self'[r].git = "None"
          /\ (pc[r] = "entry" \/ trials'[r] # trials[r]) =>
                /\ \A j \in 1..Len(TablesOfStep(r)) :
                      TablesOfStep(r)[j].has_git = (self'[r].git = "Some")
                /\ \A i \in 1..Len(rows'[r]) :
                      rows'[r][i].has_git = (self'[r].git = "Some")
      ]_vars

\* A cache that has something for the first file and nothing for the
\* directory was dropped, and two trials were made without the column.
C16_Witness ==
    \E r \in Runs :
        /\ Returned(r) /\ N(r) = MaxPairN /\ Len(trials[r]) >= 2
        /\ self[r].dir = "Some" /\ self[r].cache = {1}
        /\ self[r].git = "None"
        /\ \A i \in 1..Len(rows[r]) : ~rows[r][i].has_git

\* A cache that has something for the last file only, and no directory, was
\* kept over two trials.
C16_WitnessKept ==
    \E r \in Runs :
        /\ Returned(r) /\ N(r) = MaxPairN /\ Len(trials[r]) >= 2
        /\ self[r].dir = "None" /\ self[r].cache = {MaxPairN}
        /\ self[r].git = "Some"

-----------------------------------------------------------------------------
(* C17 (SpecGrid) *)

\* Down, the cells are the rows of table 1, then of table 2, ...: the table
\* (1-based) whose row the k-th cell is.
CellsBefore(j) == SumSeq([i \in 1..(j - 1) |-> Len(mg.tables[i].rows)])

TableOfCell(k) ==
    CHOOSE j \in 1..Len(mg.tables) :
        CellsBefore(j) < k /\ k <= CellsBefore(j) + Len(mg.tables[j].rows)

\* The width of table j: of its widest row, 0 without a row.
WidthOfTable(j) ==
    Max({0} \cup {RenderedWidth(mg.tables[j], mg.tables[j].rows[x], mg.rows, mg.file_names) :
                    x \in 1..Len(mg.tables[j].rows)})

\* C17 as stated: in Down direction, for every column count c the search
\* tries, the packer puts cell k into column k / ceil(cells / c), and that is
\* the column of the cell's table, header cells included; so the width
\* measured for the fit test is the width of the c tables side by side.
C17_DownCellsInColumnOfTheirTable ==
    (/\ mg.pc = "returned" /\ ~mg.self.across
     /\ mg.column_count \in GridColumnCounts(mg.self.files) \ {1})
    => LET c == mg.column_count
           num_lines == divide_rounding_up(Len(mg.grid.cells), c)
       IN  /\ \A k \in 1..Len(mg.grid.cells) :
                 GridColumnOf(mg.grid.direction, k - 1, num_lines, c) = TableOfCell(k) - 1
           /\ LaidOutWidth(mg.grid, c)
                 = SumSeq([j \in 1..c |-> WidthOfTable(j)]) + Filling * (c - 1)

\* Without the headers the claim holds: down, every cell is in the column of
\* its table.
C17_DownWithoutHeaders ==
    (/\ mg.pc = "returned" /\ ~mg.self.across /\ ~mg.self.header
     /\ mg.column_count \in GridColumnCounts(mg.self.files) \ {1})
    => LET c == mg.column_count
           num_lines == divide_rounding_up(Len(mg.grid.cells), c)
       IN  \A k \in 1..Len(mg.grid.cells) :
              GridColumnOf(mg.grid.direction, k - 1, num_lines, c) = TableOfCell(k) - 1

\* Five files down four columns with headers: the header of the fourth
\* table, the ninth cell, is packed into the third column.
C17_HeaderInColumnOfPreviousTable ==
    /\ mg.pc = "returned" /\ ~mg.self.across /\ mg.self.header
    /\ GridN = 5 /\ mg.column_count = 4
    /\ Len(mg.grid.cells) = 9 /\ TableOfCell(9) = 4
    /\ GridColumnOf(mg.grid.direction, 8, 3, 4) = 2

-----------------------------------------------------------------------------
(* C18 (SpecType) *)

\* The rules of get_file_type, each on its own.
NameIsReadme(file) ==
    /\ Len(file.name) >= 6
    /\ \A i \in 1..6 : LowerChar(file.name[i]) = <<"r", "e", "a", "d", "m", "e">>[i]

NameInTable(file) == \E e \in FILENAME_TYPES : e.key = file.name

ExtInTable(file) ==
    file.ext.some /\ \E e \in EXTENSION_TYPES : e.key = file.ext.value

NameIsTemp(file) ==
    \/ file.name[Len(file.name)] = "~"
    \/ file.name[1] = "#" /\ file.name[Len(file.name)] = "#"

SourceInParentDir(file) ==
    file.parent_dir.some /\ file.source_files \cap file.parent_dir.contains # {}

\* C18: get_file_type returns what the first rule that matches gives, in
\* this order: Build for a name that starts with "readme" in any case,
\* whatever the extension; the entry of the name itself in the filename
\* table; the entry of the extension in the extension table; Temp for a name
\* that ends with '~' or starts and ends with '#'; Compiled when a source
\* file of the file is in its parent directory; None.
C18_FirstMatchingRule ==
    ft.pc = "returned"
    => LET file == ft.file
       IN  /\ NameIsReadme(file) => ft.result = "Build"
           /\ (~NameIsReadme(file) /\ NameInTable(file))
                => \E e \in FILENAME_TYPES : e.key = file.name /\ ft.result = e.value
           /\ (~NameIsReadme(file) /\ ~NameInTable(file) /\ ExtInTable(file))
                => \E e \in EXTENSION_TYPES :
                      e.key = file.ext.value /\ ft.result = e.value
           /\ (/\ ~NameIsReadme(file) /\ ~NameInTable(file) /\ ~ExtInTable(file)
               /\ NameIsTemp(file))
                => ft.result = "Temp"
           /\ (/\ ~NameIsReadme(file) /\ ~NameInTable(file) /\ ~ExtInTable(file)
               /\ ~NameIsTemp(file) /\ SourceInParentDir(file))
                => ft.result = "Compiled"
           /\ (/\ ~NameIsReadme(file) /\ ~NameInTable(file) /\ ~ExtInTable(file)
               /\ ~NameIsTemp(file) /\ ~SourceInParentDir(file))
                => ft.result = "None"

\* "RoboFile.php" is in the filename table as Build and its extension is in
\* the extension table as Source: it is Build.
C18_Witness ==
    /\ ft.pc = "returned"
    /\ ft.file.name = <<"R", "o", "b", "o", "F", "i", "l", "e", ".", "p", "h", "p">>
    /\ ft.file.ext = SomeString(<<"p", "h", "p">>)
    /\ MapGet(EXTENSION_TYPES, ft.file.ext.value) = "Source"
    /\ ft.result = "Build"

\* "README.rs" is Build though its extension is in the table as Source.
C18_WitnessReadme ==
    /\ ft.pc = "returned"
    /\ ft.file.name = <<"R", "E", "A", "D", "M", "E", ".", "r", "s">>
    /\ ft.result = "Build"

\* "main.aux~" with a source file in its directory is Temp, "main.aux" is
\* Compiled, "MAKEFILE" is None.
C18_WitnessTemp ==
    /\ ft.pc = "returned" /\ ft.file.name = <<"m", "a", "i", "n", ".", "a", "u", "x", "~">>
    /\ SourceInParentDir(ft.file) /\ ft.result = "Temp"

C18_WitnessCompiled ==
    /\ ft.pc = "returned" /\ ft.file.name = <<"m", "a", "i", "n", ".", "a", "u", "x">>
    /\ SourceInParentDir(ft.file) /\ ft.result = "Compiled"

C18_WitnessNone ==
    /\ ft.pc = "returned" /\ ft.file.name = <<"M", "A", "K", "E", "F", "I", "L", "E">>
    /\ SourceInParentDir(ft.file) = FALSE /\ ft.result = "None"

=============================================================================
